---- MODULE Spec2Model ----
(***************************************************************************)
(* A state-machine model of the machine combiner pass                      *)
(* (lib/CodeGen/MachineCombiner.cpp): the cost model (getDepth,            *)
(* getLatency, improvesCriticalPathLen, preservesResourceLen,              *)
(* doSubstitute) as operators, and the driver (runOnMachineFunction,       *)
(* combineInstructions, insertDeleteInstructions) as actions.  The         *)
(* collaborators of the pass (pattern provider, scheduling model, trace    *)
(* metrics, loop info, register info) answer nondeterministically from     *)
(* small sets.                                                             *)
(***************************************************************************)
EXTENDS Integers, Sequences, FiniteSets, TLC

-----------------------------------------------------------------------------
(* Bounds of the model.                                                    *)

\* trace depths range over 0..MaxDepth
MaxDepth == 1
\* trace slack ranges over 0..MaxSlack
MaxSlack == 1
\* instruction latencies range over 1..MaxLatency
MaxLatency == 2
\* operand latencies range over 0..MaxOpLatency
MaxOpLatency == 1

-----------------------------------------------------------------------------
(* Machine arithmetic.  The cost model computes in `unsigned`; every sum   *)
(* of the model stays far below 2^32, so the additions are the ones of the *)
(* integers.                                                               *)

UAdd(a, b) == a + b
UMax(a, b) == IF a >= b THEN a ELSE b

RECURSIVE SumSeq(_)
SumSeq(s) == IF s = <<>> THEN 0 ELSE UAdd(Head(s), SumSeq(Tail(s)))

RECURSIVE MaxSeq(_)
MaxSeq(s) == IF s = <<>> THEN 0 ELSE UMax(Head(s), MaxSeq(Tail(s)))

Range(s) == {s[k] : k \in 1..Len(s)}

-----------------------------------------------------------------------------
(* Data model.                                                             *)
(* An instruction attached to a block is [id, opc, def]: its identity, its *)
(* opcode and the virtual register it defines.  A new instruction of a     *)
(* candidate has its operands too: [id, opc, def, ops], an operand being   *)
(* [isReg, isVirt, isUse, reg].                                            *)

NullInstr == [id |-> 0, opc |-> "NULL", def |-> 0]
\* the end iterator of a block
EndIt == 0
\* the iterator an erased instruction leaves behind when it is advanced: the
\* links of the instruction were cleared when it left its block
NullIt == -1

DefOp(r) == [isReg |-> TRUE, isVirt |-> TRUE, isUse |-> FALSE, reg |-> r]
UseOp(r) == [isReg |-> TRUE, isVirt |-> TRUE, isUse |-> TRUE, reg |-> r]
PhysOp(r) == [isReg |-> TRUE, isVirt |-> FALSE, isUse |-> TRUE, reg |-> r]
ImmOp == [isReg |-> FALSE, isVirt |-> FALSE, isUse |-> FALSE, reg |-> 0]

Orig(i, o) == [id |-> i, opc |-> o, def |-> i]

\* The function the pass runs on: two blocks; instruction 4 is a PHI.
InitBlocks ==
    << << Orig(1, "MUL"), Orig(2, "ADD"), Orig(3, "SUB") >>,
       << Orig(4, "PHI") >> >>

\* the register the PHI defines, a virtual register that has no definition,
\* and a physical register
PhiVReg == InitBlocks[2][1].def
UndefVReg == PhiVReg + 1
PhysReg == PhiVReg + 2

\* what a block keeps of an instruction spliced into it
Attached(I) == [id |-> I.id, opc |-> I.opc, def |-> I.def]

Ids(blk) == {blk[k].id : k \in 1..Len(blk)}
AllInstrs(bs) == UNION {Range(bs[b]) : b \in 1..Len(bs)}
AllIds(bs) == {i.id : i \in AllInstrs(bs)}
PosOf(blk, id) == CHOOSE k \in 1..Len(blk) : blk[k].id = id
InstrAt(blk, id) == blk[PosOf(blk, id)]

\* iterator arithmetic on a block
BeginOf(blk) == IF blk = <<>> THEN EndIt ELSE blk[1].id
NextOf(blk, id) ==
    LET k == PosOf(blk, id) IN IF k = Len(blk) THEN EndIt ELSE blk[k + 1].id

\* MachineBasicBlock::insert(iterator(&MI), InstrPtr), once per new instruction
InsertBefore(blk, id, new) ==
    LET k == PosOf(blk, id)
    IN SubSeq(blk, 1, k - 1) \o new \o SubSeq(blk, k, Len(blk))

\* MachineInstr::eraseFromParent for every instruction whose id is in dead
RECURSIVE EraseAll(_, _)
EraseAll(blk, dead) ==
    IF blk = <<>> THEN <<>>
    ELSE IF Head(blk).id \in dead THEN EraseAll(Tail(blk), dead)
    ELSE <<Head(blk)>> \o EraseAll(Tail(blk), dead)

-----------------------------------------------------------------------------
(* Register info.                                                          *)

\* MachineRegisterInfo::getUniqueVRegDef over the attached instructions F
getUniqueVRegDef(F, r) ==
    LET D == {i \in F : i.def = r}
    IN IF Cardinality(D) = 1 THEN CHOOSE i \in D : TRUE ELSE NullInstr

isPHI(I) == I.opc = "PHI"

\* a faulty variant: a PHI counts as a definition
getOperandDefWithPHI(MO, F) ==
    IF MO.isReg /\ MO.isVirt THEN getUniqueVRegDef(F, MO.reg) ELSE NullInstr

\* MachineCombiner::getOperandDef
getOperandDef(MO, F) ==
    LET DefInstr == IF MO.isReg /\ MO.isVirt
                    THEN getUniqueVRegDef(F, MO.reg) ELSE NullInstr
    IN IF DefInstr # NullInstr /\ isPHI(DefInstr) THEN NullInstr ELSE DefInstr

-----------------------------------------------------------------------------
(* Collaborators of the cost model.                                        *)
(* A scheduling model TSched is [InstrLat, OpLat]: computeInstrLatency by  *)
(* instruction id, computeOperandLatency by <<instruction id, register>>.  *)
(* A trace BlockTrace is [Depth, Slack, DepInTrace, Block]: depth and      *)
(* slack by instruction id, isDepInTrace(Root, first use) by defined       *)
(* register, and the block the trace was computed for.  The register info  *)
(* MRI is [Entries]: by register, the number of entries of its use-def     *)
(* list, counted up to two.                                                *)

\* TargetSchedModel::hasInstrSchedModel and hasInstrSchedModelOrItineraries,
\* for a scheduling model that is "none", "itineraries" or "instr"
hasInstrSchedModel(model) == model = "instr"
hasInstrSchedModelOrItineraries(model) == model = "instr" \/ model = "itineraries"

\* TII->get(Opc).getSchedClass() then SchedModel.getSchedClassDesc(Idx): the
\* descriptor is kept as the cycles the class occupies the one resource.
SchedClassCycles(opc) ==
    CASE opc = "MUL" -> 2
      [] opc = "MADD" -> 2
      [] opc = "PHI" -> 0
      [] OTHER -> 1

\* MachineTraceMetrics::Trace::getResourceLength(Blocks, Extra, Remove).
\* The classes removed are those of instructions of the block, so neither
\* difference goes below zero; a difference that would wrap around 2^32 is
\* given no value.
getResourceLength(BlockTrace, ExtraSC, RemoveSC) ==
    LET blk == BlockTrace.Block
        base == SumSeq([k \in 1..Len(blk) |-> SchedClassCycles(blk[k].opc)])
        added == UAdd(base, SumSeq(ExtraSC))
        held == UAdd(Len(blk), Len(ExtraSC))
        PRCycles == CASE added >= SumSeq(RemoveSC) -> added - SumSeq(RemoveSC)
        Instrs == CASE held >= Len(RemoveSC) -> held - Len(RemoveSC)
    IN UMax(Instrs, PRCycles)

-----------------------------------------------------------------------------
(* The cost model.                                                         *)

\* depth of one operand of a new instruction, given the depths already
\* computed for the earlier new instructions (the body of the operand loop)
OperandDepth(InstrPtr, MO, InstrDepth, InstrIdxForVirtReg, BlockTrace, TSched, F) ==
    IF ~(MO.isReg /\ MO.isVirt) THEN 0
    ELSE IF ~MO.isUse THEN 0
    ELSE IF MO.reg \in DOMAIN InstrIdxForVirtReg
         THEN UAdd(InstrDepth[InstrIdxForVirtReg[MO.reg] + 1],
                   TSched.OpLat[<<InstrPtr.id, MO.reg>>])
         ELSE LET DefInstr == getOperandDef(MO, F)
              IN IF DefInstr # NullInstr
                 THEN UAdd(BlockTrace.Depth[DefInstr.id],
                           TSched.OpLat[<<InstrPtr.id, MO.reg>>])
                 ELSE 0

\* the vector InstrDepth after the first k new instructions
RECURSIVE InstrDepths(_, _, _, _, _, _)
InstrDepths(InsInstrs, InstrIdxForVirtReg, BlockTrace, TSched, F, k) ==
    IF k = 0 THEN <<>>
    ELSE LET InstrDepth == InstrDepths(InsInstrs, InstrIdxForVirtReg,
                                       BlockTrace, TSched, F, k - 1)
             InstrPtr == InsInstrs[k]
             IDepth == MaxSeq([j \in 1..Len(InstrPtr.ops) |->
                          OperandDepth(InstrPtr, InstrPtr.ops[j], InstrDepth,
                                       InstrIdxForVirtReg, BlockTrace, TSched, F)])
         IN Append(InstrDepth, IDepth)

\* MachineCombiner::getDepth: the depth of the last new instruction
getDepth(InsInstrs, InstrIdxForVirtReg, BlockTrace, TSched, F) ==
    LET NewRootIdx == Len(InsInstrs) - 1
    IN InstrDepths(InsInstrs, InstrIdxForVirtReg, BlockTrace, TSched, F,
                   Len(InsInstrs))[NewRootIdx + 1]

\* a call that returns v, and a call that stops the program instead
Returns(v) == [returns |-> TRUE, value |-> v]
NoReturn == [returns |-> FALSE]

\* lines 202-204: `reg_begin(Reg); RI++; RI->getParent()` has an entry to go
\* to when the use-def list of the register holds one after its first
HasSecondEntry(MRI, reg) == MRI.Entries[reg] >= 2

\* MachineCombiner::getLatency: max over the registers NewRoot defines.  For
\* a register whose list ends before its second entry the end iterator is
\* incremented or dereferenced, which stops the program in every build.
getLatency(Root, NewRoot, BlockTrace, TSched, MRI) ==
    IF \E j \in 1..Len(NewRoot.ops) :
          LET MO == NewRoot.ops[j]
          IN MO.isReg /\ MO.isVirt /\ ~MO.isUse /\ ~HasSecondEntry(MRI, MO.reg)
    THEN NoReturn
    ELSE Returns(MaxSeq([j \in 1..Len(NewRoot.ops) |->
            LET MO == NewRoot.ops[j]
            IN IF ~(MO.isReg /\ MO.isVirt) THEN 0
               ELSE IF MO.isUse THEN 0
               ELSE IF BlockTrace.DepInTrace[MO.reg]
                    THEN TSched.OpLat[<<NewRoot.id, MO.reg>>]
                    ELSE TSched.InstrLat[NewRoot.id]]))

getCombinerObjective(P) ==
    IF P \in {"REASSOC_AX_BY", "REASSOC_AX_YB", "REASSOC_XA_BY", "REASSOC_XA_YB"}
    THEN "MustReduceDepth"
    ELSE "Default"

\* a faulty variant: the latency of the root is left out
RootLatencyOfOthers(DelInstrs, TSched) ==
    SumSeq([k \in 1..(Len(DelInstrs) - 1) |-> TSched.InstrLat[DelInstrs[k].id]])

\* lines 280-281: the sum of the full latencies of the deleted instructions
RootLatencyOf(DelInstrs, TSched) ==
    SumSeq([k \in 1..Len(DelInstrs) |-> TSched.InstrLat[DelInstrs[k].id]])

\* a faulty comparison: the depth of the new root is left out
CycleCountCompareNoNewDepth(NewRootDepth, NewRootLatency, RootDepth, RootLatency, RootSlack) ==
    NewRootLatency <= UAdd(UAdd(RootDepth, RootLatency), RootSlack)

\* a faulty comparison: the latency of the new root is left out
CycleCountCompareNoNewLatency(NewRootDepth, NewRootLatency, RootDepth, RootLatency, RootSlack) ==
    NewRootDepth <= UAdd(UAdd(RootDepth, RootLatency), RootSlack)

\* lines 293-296: the comparison of the Default objective
CycleCountCompare(NewRootDepth, NewRootLatency, RootDepth, RootLatency, RootSlack) ==
    LET NewCycleCount == UAdd(NewRootDepth, NewRootLatency)
        OldCycleCount == UAdd(UAdd(RootDepth, RootLatency), RootSlack)
    IN NewCycleCount <= OldCycleCount

\* a faulty comparison: an equal depth is taken for a reduction
DepthCompareNonStrict(NewRootDepth, RootDepth) == NewRootDepth <= RootDepth

\* lines 270-271: the comparison of the MustReduceDepth objective
DepthCompare(NewRootDepth, RootDepth) == NewRootDepth < RootDepth

\* MachineCombiner::improvesCriticalPathLen
improvesCriticalPathLen(Root, BlockTrace, InsInstrs, DelInstrs, InstrIdxForVirtReg, Pattern, TSched, F, MRI) ==
    LET NewRoot == InsInstrs[Len(InsInstrs)]
        NewRootDepth == getDepth(InsInstrs, InstrIdxForVirtReg, BlockTrace, TSched, F)
        RootDepth == BlockTrace.Depth[Root.id]
        NewRootLatency == getLatency(Root, NewRoot, BlockTrace, TSched, MRI)
    IN IF getCombinerObjective(Pattern) = "MustReduceDepth"
       THEN Returns(DepthCompare(NewRootDepth, RootDepth))
       ELSE IF ~NewRootLatency.returns THEN NoReturn
       ELSE Returns(CycleCountCompare(NewRootDepth,
                                      NewRootLatency.value,
                                      RootDepth,
                                      RootLatencyOf(DelInstrs, TSched),
                                      BlockTrace.Slack[Root.id]))

\* MachineCombiner::instr2instrSC
instr2instrSC(Instrs) == [k \in 1..Len(Instrs) |-> SchedClassCycles(Instrs[k].opc)]

\* a faulty variant: the resource length has to shrink
preservesResourceLenStrict(BlockTrace, InsInstrs, DelInstrs, hasInstrModel) ==
    IF ~hasInstrModel THEN TRUE
    ELSE getResourceLength(BlockTrace, instr2instrSC(InsInstrs),
                           instr2instrSC(DelInstrs))
            < getResourceLength(BlockTrace, <<>>, <<>>)

\* MachineCombiner::preservesResourceLen
preservesResourceLen(BlockTrace, InsInstrs, DelInstrs, hasInstrModel) ==
    IF ~hasInstrModel THEN TRUE
    ELSE LET ResLenBeforeCombine == getResourceLength(BlockTrace, <<>>, <<>>)
             ResLenAfterCombine ==
                 getResourceLength(BlockTrace, instr2instrSC(InsInstrs),
                                   instr2instrSC(DelInstrs))
         IN ResLenAfterCombine <= ResLenBeforeCombine

\* faulty variants of doSubstitute: one forgets the missing scheduling model,
\* the other the code-size rule
doSubstituteSizeOnly(NewSize, OldSize, OptSize, hasModel) ==
    OptSize /\ NewSize < OldSize
doSubstituteModelOnly(NewSize, OldSize, OptSize, hasModel) ==
    ~hasModel

\* a faulty variant: the test of the scheduling model is turned around
doSubstituteModelFlipped(NewSize, OldSize, OptSize, hasModel) ==
    IF OptSize /\ NewSize < OldSize THEN TRUE
    ELSE IF hasModel THEN TRUE
    ELSE FALSE

\* MachineCombiner::doSubstitute
doSubstitute(NewSize, OldSize, OptSize, hasModel) ==
    IF OptSize /\ NewSize < OldSize THEN TRUE
    ELSE IF ~hasModel THEN TRUE
    ELSE FALSE

\* a faulty variant: the loop-throughput override is never taken
SubstituteNever(inLoop, isThroughputPattern) == FALSE

\* the test `ML && TII->isThroughputPattern(P)`
SubstituteAlways(inLoop, isThroughputPattern) == inLoop /\ isThroughputPattern

-----------------------------------------------------------------------------
(* The pattern provider (TargetInstrInfo).                                 *)

AllPatterns ==
    {"REASSOC_AX_BY", "REASSOC_AX_YB", "REASSOC_XA_BY", "REASSOC_XA_YB",
     "MULADDW_OP1"}

\* the two patterns the provider returns together, in either order
ListPatterns == {"REASSOC_AX_BY", "MULADDW_OP1"}

\* getMachineCombinerPatterns: the lists it may return for a root of opcode
\* opc; a list names no pattern twice
PatternLists(opc) ==
    IF opc \in {"MUL", "ADD"}
    THEN {<<>>} \cup {<<p>> : p \in AllPatterns}
         \cup {<<p, q>> : <<p, q>> \in {r \in ListPatterns \X ListPatterns : r[1] # r[2]}}
    ELSE {<<>>}

\* identity of the k-th instruction created for pattern number n of Root
NewId(Root, n, k) == 100 * Root.id + 10 * n + k

\* the neighbours of Root in its block; an erased Root has none
PrevOf(blk, Root) ==
    IF Root.id \notin Ids(blk) THEN NullInstr
    ELSE LET k == PosOf(blk, Root.id)
         IN IF k > 1 /\ ~isPHI(blk[k - 1]) THEN blk[k - 1] ELSE NullInstr

SuccOf(blk, Root) ==
    IF Root.id \notin Ids(blk) THEN NullInstr
    ELSE LET k == PosOf(blk, Root.id)
         IN IF k < Len(blk) THEN blk[k + 1] ELSE NullInstr

\* registers the new instructions may read from outside the candidate
ExtRegs(blk, Root) ==
    {UndefVReg} \cup
    (IF PrevOf(blk, Root) # NullInstr THEN {PrevOf(blk, Root).def} ELSE {PhiVReg})

\* the old sequences that end in Root
DelEndingInRoot(blk, Root) ==
    {<<Root>>} \cup
    (IF PrevOf(blk, Root) # NullInstr THEN {<<PrevOf(blk, Root), Root>>} ELSE {})

\* an old sequence that reaches past Root
DelPastRoot(blk, Root) ==
    IF SuccOf(blk, Root) # NullInstr THEN {<<Root, SuccOf(blk, Root)>>} ELSE {}

Fused(Root, n, x) ==
    [Ins |-> << [id |-> NewId(Root, n, 1), opc |-> "MADD", def |-> Root.def,
                 ops |-> <<DefOp(Root.def), UseOp(x), PhysOp(PhysReg), ImmOp>>] >>,
     Idx |-> <<>>]

Pair(Root, n, x) ==
    LET t == NewId(Root, n, 1)
    IN [Ins |-> << [id |-> t, opc |-> "NEG", def |-> t,
                    ops |-> <<DefOp(t), UseOp(x), ImmOp>>],
                   [id |-> NewId(Root, n, 2), opc |-> "SUB", def |-> Root.def,
                    ops |-> <<DefOp(Root.def), UseOp(t), PhysOp(PhysReg)>>] >>,
        Idx |-> (t :> 0)]

\* genAlternativeCodeSequence: what it may fill InsInstrs, DelInstrs and
\* InstrIdxForVirtReg with; dels is the set of old sequences it may return
Candidates(blk, Root, n, dels) ==
    { [Ins |-> <<>>, Del |-> <<>>, Idx |-> <<>>] } \cup
    { [Ins |-> c.Ins, Del |-> d, Idx |-> c.Idx] :
        c \in {Fused(Root, n, x) : x \in ExtRegs(blk, Root)}
              \cup {Pair(Root, n, x) : x \in ExtRegs(blk, Root)},
        d \in dels }

-----------------------------------------------------------------------------
(* State of the pass.                                                      *)

VARIABLES
    pc,          \* position of the pass in runOnMachineFunction/combineInstructions
    cfg,         \* OptSize, the scheduling model, useMachineCombiner
    blocks,      \* the function: a sequence of blocks, each a sequence of instructions
    MBB,         \* index of the block being combined
    BlockIter,   \* the read cursor: an instruction id or EndIt
    MI,          \* the anchor (Root)
    ML,          \* MLI->getLoopFor(MBB) is not null
    Patterns,    \* the pattern list of the anchor
    pidx,        \* number of the pattern being tried, in list order
    InsInstrs, DelInstrs, InstrIdxForVirtReg,   \* the candidate
    before,      \* the block as it was when the candidate was synthesized
    MinInstr,    \* the trace ensemble has been obtained
    Changed,     \* combineInstructions' local flag
    FnChanged,   \* runOnMachineFunction's flag
    edited,      \* per block: edited since its trace entry was last invalidated
    via,         \* which test took the candidate: "always", "dosub", "cost"
    thr,         \* the provider was asked isThroughputPattern(P) and said yes
    dec,         \* what the cost model has computed for the candidate
    queried,     \* trace queries made for the candidate
    pending,     \* new instructions created and neither attached nor released
    freed,       \* new instructions released during this anchor's visit
    outcomes,    \* fate of each pattern tried for this anchor, in order
    staleRead,   \* a trace was read for a block edited and not invalidated
    deadQuery,   \* a depth or slack was queried for an unattached instruction
    dangled,     \* the cursor was used while designating an erased instruction
    invalidated, \* the blocks whose trace entry the pass has invalidated
    answers,     \* what trace and scheduling model answer when getDepth runs alone
    sweep        \* the sweep of the block: its size at the start, the anchors taken

vars == <<pc, cfg, blocks, MBB, BlockIter, MI, ML, Patterns, pidx, InsInstrs,
          DelInstrs, InstrIdxForVirtReg, before, MinInstr, Changed, FnChanged, edited,
          via, thr, dec, queried, pending, freed, outcomes, staleRead,
          deadQuery, dangled, invalidated, answers, sweep>>

NoDec == [obj |-> "none", NewRootDepth |-> 0, RootDepth |-> 0,
          NewRootLatency |-> 0, RootLatency |-> 0, RootSlack |-> 0,
          DelLat |-> <<>>, improves |-> FALSE,
          ResLen |-> <<>>]

\* no trace depth and no operand latency has been fixed
NoAnswers == [Depth |-> <<>>, OpLat |-> <<>>]

\* no block is being swept
NoSweep == [held |-> 0, anchors |-> <<>>]

Configs == [OptSize : BOOLEAN, SchedModel : {"none", "itineraries", "instr"},
            UseCombiner : BOOLEAN]

Init ==
    /\ pc = "start"
    /\ cfg \in Configs
    /\ blocks = InitBlocks
    /\ MBB = 0
    /\ BlockIter = EndIt
    /\ MI = NullInstr
    /\ ML = FALSE
    /\ Patterns = <<>>
    /\ pidx = 0
    /\ InsInstrs = <<>>
    /\ DelInstrs = <<>>
    /\ InstrIdxForVirtReg = <<>>
    /\ before = <<>>
    /\ MinInstr = FALSE
    /\ Changed = FALSE
    /\ FnChanged = FALSE
    /\ edited = [b \in 1..Len(InitBlocks) |-> FALSE]
    /\ via = "none"
    /\ thr = FALSE
    /\ dec = NoDec
    /\ queried = {}
    /\ pending = {}
    /\ freed = {}
    /\ outcomes = <<>>
    /\ staleRead = FALSE
    /\ deadQuery = FALSE
    /\ dangled = FALSE
    /\ invalidated = {}
    /\ answers = NoAnswers
    /\ sweep = NoSweep

candVars == <<InsInstrs, DelInstrs, InstrIdxForVirtReg, before>>
histVars == <<staleRead, deadQuery, dangled, invalidated>>
decVars == <<via, thr, dec, queried>>

-----------------------------------------------------------------------------
(* runOnMachineFunction.                                                   *)

\* a faulty variant: the answer of the target is not looked at
useMachineCombinerAlways(c) == TRUE

\* line 486: TII->useMachineCombiner()
useMachineCombiner(c) == c.UseCombiner

\* lines 473-491: set up, and leave at once when the target opts out
RunOnMachineFunction ==
    /\ pc = "start"
    /\ MinInstr' = FALSE
    /\ FnChanged' = FALSE
    /\ IF ~useMachineCombiner(cfg)
       THEN pc' = "done" /\ MBB' = MBB
       ELSE pc' = "block" /\ MBB' = 1
    /\ UNCHANGED <<cfg, answers, sweep, blocks, BlockIter, MI, ML, Patterns, pidx, candVars,
                   Changed, edited, decVars, pending, freed, outcomes, histVars>>

\* lines 494-497: the loop over the blocks has ended
ReturnChanged ==
    /\ pc = "block"
    /\ MBB > Len(blocks)
    /\ pc' = "done"
    /\ UNCHANGED <<cfg, answers, sweep, blocks, MBB, BlockIter, MI, ML, Patterns, pidx, candVars,
                   MinInstr, Changed, FnChanged, edited, decVars, pending,
                   freed, outcomes, histVars>>

-----------------------------------------------------------------------------
(* combineInstructions.                                                    *)

\* lines 377-383: enter a block
EnterBlock ==
    /\ pc = "block"
    /\ MBB <= Len(blocks)
    /\ Changed' = FALSE
    /\ BlockIter' = BeginOf(blocks[MBB])
    /\ \E inLoop \in BOOLEAN : ML' = inLoop
    /\ sweep' = [held |-> Len(blocks[MBB]), anchors |-> <<>>]
    /\ pc' = "loop"
    /\ UNCHANGED <<cfg, answers, blocks, MBB, MI, Patterns, pidx, candVars, MinInstr,
                   FnChanged, edited, decVars, pending, freed, outcomes, histVars>>

\* a faulty variant: the flag of the last block replaces the function's
MergeChangedOverwrite(fn, blk) == blk

\* the merge of the block's flag into the function's (line 495)
MergeChanged(fn, blk) == fn \/ blk

\* lines 385, 470 and 495: the cursor is at the end, the block's flag is returned
LeaveBlock ==
    /\ pc = "loop"
    /\ BlockIter = EndIt
    /\ FnChanged' = MergeChanged(FnChanged, Changed)
    /\ MBB' = MBB + 1
    /\ MI' = NullInstr
    /\ Patterns' = <<>>
    /\ pidx' = 0
    /\ freed' = {}
    /\ outcomes' = <<>>
    /\ before' = <<>>
    /\ pc' = "block"
    /\ UNCHANGED <<cfg, answers, sweep, blocks, BlockIter, ML, InsInstrs, DelInstrs,
                   InstrIdxForVirtReg, MinInstr, Changed,
                   edited, decVars, pending, histVars>>

\* a faulty variant: the cursor goes back to the first instruction
AdvanceCursorToBegin(blk, it) == BeginOf(blk)

\* a faulty variant: the cursor stays on the anchor while its body runs
AdvanceCursorLate(blk, it) == it

\* line 386: `auto &MI = *BlockIter++`
AdvanceCursor(blk, it) == NextOf(blk, it)

\* lines 385-416: take the anchor, advance the cursor, ask for its patterns
NextAnchor ==
    /\ pc = "loop"
    /\ BlockIter \in Ids(blocks[MBB])
    /\ LET Root == InstrAt(blocks[MBB], BlockIter)
       IN /\ MI' = Root
          /\ BlockIter' = AdvanceCursor(blocks[MBB], BlockIter)
          /\ \E ps \in PatternLists(Root.opc) :
                /\ Patterns' = ps
                /\ IF ps = <<>>
                   THEN pc' = "loop" /\ pidx' = 0
                   ELSE pc' = "pattern" /\ pidx' = 1
    /\ freed' = {}
    /\ outcomes' = <<>>
    /\ before' = <<>>
    /\ sweep' = [sweep EXCEPT !.anchors = Append(@, BlockIter)]
    /\ UNCHANGED <<cfg, answers, blocks, MBB, ML, InsInstrs, DelInstrs,
                   InstrIdxForVirtReg, MinInstr, Changed, FnChanged,
                   edited, decVars, pending, histVars>>

\* line 418: the pattern list is exhausted
PatternsDone ==
    /\ pc = "pattern"
    /\ pidx > Len(Patterns)
    /\ pc' = "loop"
    /\ UNCHANGED <<cfg, answers, sweep, blocks, MBB, BlockIter, MI, ML, Patterns, pidx, candVars,
                   MinInstr, Changed, FnChanged, edited, decVars, pending,
                   freed, outcomes, histVars>>

\* lines 418-433: obtain the ensemble, synthesize the candidate of the pattern
Synthesize(dels) ==
    /\ pc = "pattern"
    /\ pidx <= Len(Patterns)
    /\ MinInstr' = TRUE
    /\ before' = blocks[MBB]
    /\ \E c \in Candidates(blocks[MBB], MI, pidx, dels) :
          /\ pending' = pending \cup Ids(c.Ins)
          /\ IF Len(c.Ins) = 0
             THEN /\ pc' = "pattern"
                  /\ pidx' = pidx + 1
                  /\ outcomes' = Append(outcomes, "empty")
                  /\ InsInstrs' = <<>>
                  /\ DelInstrs' = <<>>
                  /\ InstrIdxForVirtReg' = <<>>
             ELSE /\ pc' = "check"
                  /\ pidx' = pidx
                  /\ outcomes' = outcomes
                  /\ InsInstrs' = c.Ins
                  /\ DelInstrs' = c.Del
                  /\ InstrIdxForVirtReg' = c.Idx
    /\ UNCHANGED <<cfg, answers, sweep, blocks, MBB, BlockIter, MI, ML, Patterns, Changed,
                   FnChanged, edited, decVars, freed, histVars>>

\* lines 435-443: the loop-throughput override, then doSubstitute.  The
\* provider is asked about the pattern only when the block is in a loop.
CheckSubstitute ==
    /\ pc = "check"
    /\ \E isThroughputPattern \in (IF ML THEN BOOLEAN ELSE {FALSE}) :
          /\ thr' = isThroughputPattern
          /\ IF SubstituteAlways(ML, isThroughputPattern)
             THEN via' = "always" /\ pc' = "insert"
             ELSE IF doSubstitute(Len(InsInstrs), Len(DelInstrs), cfg.OptSize,
                                  hasInstrSchedModelOrItineraries(cfg.SchedModel))
                  THEN via' = "dosub" /\ pc' = "insert"
                  ELSE via' = "cost" /\ pc' = "cost"
    /\ UNCHANGED <<cfg, answers, sweep, blocks, MBB, BlockIter, MI, ML, Patterns, pidx, candVars,
                   MinInstr, Changed, FnChanged, edited, dec, queried, pending,
                   freed, outcomes, histVars>>

-----------------------------------------------------------------------------
(* The cost-model branch, lines 448-459, in the order of its queries.      *)

\* positions <<k, j>> of the virtual-register operands of the instructions Ins
VRegOps(Ins) ==
    UNION { {<<k, j>> : j \in {i \in 1..Len(Ins[k].ops) :
                                 Ins[k].ops[i].isReg /\ Ins[k].ops[i].isVirt}} :
            k \in 1..Len(Ins) }

\* the definitions outside the candidate whose trace depth getDepth reads
ExtDefs(Ins, Idx, F) ==
    {getOperandDef(Ins[q[1]].ops[q[2]], F).id :
        q \in {r \in VRegOps(Ins) :
                 /\ Ins[r[1]].ops[r[2]].isUse
                 /\ Ins[r[1]].ops[r[2]].reg \notin DOMAIN Idx
                 /\ getOperandDef(Ins[r[1]].ops[r[2]], F) # NullInstr}}

\* the operand pairs whose latency getDepth asks for
UseLatKeys(Ins, Idx, F) ==
    {<<Ins[q[1]].id, Ins[q[1]].ops[q[2]].reg>> :
        q \in {r \in VRegOps(Ins) :
                 /\ Ins[r[1]].ops[r[2]].isUse
                 /\ \/ Ins[r[1]].ops[r[2]].reg \in DOMAIN Idx
                    \/ getOperandDef(Ins[r[1]].ops[r[2]], F) # NullInstr}}

\* the registers the new root defines
RootDefs(NewRoot) ==
    {NewRoot.ops[j].reg : j \in {i \in 1..Len(NewRoot.ops) :
        NewRoot.ops[i].isReg /\ NewRoot.ops[i].isVirt /\ ~NewRoot.ops[i].isUse}}

\* lines 462-464: the new instructions of pattern number n that were released
\* during this anchor's visit, as the provider had built them
ReleasedOf(n) ==
    LET ids == freed \cap {NewId(MI, n, 1), NewId(MI, n, 2)}
        built == {c \in {Fused(MI, n, UndefVReg), Pair(MI, n, UndefVReg)} :
                    Ids(c.Ins) = ids}
    IN UNION {{Attached(c.Ins[k]) : k \in 1..Len(c.Ins)} : c \in built}

\* What a read of the old instruction I gives.  An instruction of the function
\* gives itself.  An erased one is read from storage that was released: it
\* gives what it held, or an instruction created in that storage since, which
\* is a new instruction of the candidate or a released one of an earlier
\* candidate of the anchor.
ReadsOf(I) ==
    {I} \cup (IF I.id \in AllIds(blocks) THEN {}
              ELSE {Attached(InsInstrs[k]) : k \in 1..Len(InsInstrs)}
                   \cup UNION {ReleasedOf(n) : n \in 1..Len(Patterns)})

\* the old instructions as instr2instrSC may read them
DelReads ==
    {d \in [1..Len(DelInstrs) -> UNION {ReadsOf(DelInstrs[k]) : k \in 1..Len(DelInstrs)}] :
        \A k \in 1..Len(DelInstrs) : d[k] \in ReadsOf(DelInstrs[k])}

\* line 454 with the old instructions read as d
PreservesWith(d) ==
    preservesResourceLen([Block |-> blocks[MBB]], InsInstrs, d,
                         hasInstrSchedModel(cfg.SchedModel))

\* line 454: the answers preservesResourceLen may give on the trace of the
\* block as it is now; one answer when every old instruction is in the function
PreservesReads == {PreservesWith(d) : d \in DelReads}

\* a faulty variant: the resource length is not looked at
AcceptsOnCriticalPath(improves, preserves) == improves

\* lines 452-454: `improvesCriticalPathLen(...) && preservesResourceLen(...)`
Accepts(improves, preserves) == improves /\ preserves

\* the resource-length queries that && makes once improves is known
ResLenQueries(improves) ==
    IF improves /\ hasInstrSchedModel(cfg.SchedModel) THEN {"reslen"} ELSE {}

\* line 324: the resource length of the block as it is
ResLenBeforeCombine == getResourceLength([Block |-> blocks[MBB]], <<>>, <<>>)

\* lines 337-338: the resource length with the classes of the new
\* instructions added and those of the old instructions, read as d, removed
ResLenAfterCombine(d) ==
    getResourceLength([Block |-> blocks[MBB]], instr2instrSC(InsInstrs),
                      instr2instrSC(d))

\* the two lengths preservesResourceLen has asked the trace for: none when &&
\* does not call it or when it returns at line 317
ResLenAsked(improves, d) ==
    IF ResLenQueries(improves) = {} THEN <<>>
    ELSE <<ResLenBeforeCombine, ResLenAfterCombine(d)>>

\* lines 451 and 254-271: the trace of the block, the two depths, and the
\* answer of a MustReduceDepth pattern
CostDepth ==
    /\ pc = "cost"
    /\ LET F == AllInstrs(blocks)
           Q == {MI.id} \cup ExtDefs(InsInstrs, InstrIdxForVirtReg, F)
       IN /\ \E d \in DelReads,
                Depth \in [Q -> 0..MaxDepth],
                OpLat \in [UseLatKeys(InsInstrs, InstrIdxForVirtReg, F)
                             -> 0..MaxOpLatency] :
               LET BlockTrace == [Depth |-> Depth, Block |-> blocks[MBB]]
                   TSched == [OpLat |-> OpLat]
                   obj == getCombinerObjective(Patterns[pidx])
                   NewRootDepth == getDepth(InsInstrs, InstrIdxForVirtReg,
                                            BlockTrace, TSched, F)
                   RootDepth == BlockTrace.Depth[MI.id]
                   ok == DepthCompare(NewRootDepth, RootDepth)
               IN IF obj = "MustReduceDepth"
                  THEN /\ dec' = [dec EXCEPT !.obj = obj,
                                             !.NewRootDepth = NewRootDepth,
                                             !.RootDepth = RootDepth,
                                             !.improves = ok,
                                             !.ResLen = ResLenAsked(ok, d)]
                       /\ pc' = IF Accepts(ok, PreservesWith(d)) THEN "insert" ELSE "reject"
                       /\ queried' = queried \cup {"depth"} \cup ResLenQueries(ok)
                  ELSE /\ dec' = [dec EXCEPT !.obj = obj,
                                             !.NewRootDepth = NewRootDepth,
                                             !.RootDepth = RootDepth]
                       /\ pc' = "latency"
                       /\ queried' = queried \cup {"depth"}
          /\ deadQuery' = (deadQuery \/ ~(Q \subseteq AllIds(blocks)))
    /\ staleRead' = (staleRead \/ edited[MBB])
    /\ UNCHANGED <<cfg, answers, sweep, blocks, MBB, BlockIter, MI, ML, Patterns, pidx, candVars,
                   MinInstr, Changed, FnChanged, edited, via, thr, pending,
                   freed, outcomes, dangled, invalidated>>

\* MachineRegisterInfo: the numbers of entries the use-def list of reg may
\* have, counted up to two.  Every attached instruction that defines reg is one
\* entry; the operands that read reg are entries the function alone knows.
UseDefEntries(F, reg) ==
    {n \in 0..2 : n = 2 \/ n >= Cardinality({I \in F : I.def = reg})}

\* the use-def lists of the registers the new root defines
UseDefLists(NewRoot, F) ==
    {e \in [RootDefs(NewRoot) -> 0..2] :
        \A r \in RootDefs(NewRoot) : e[r] \in UseDefEntries(F, r)}

\* line 277: the latency of the new root; the pass ends here when getLatency
\* steps past the end of a use-def list
CostLatency ==
    /\ pc = "latency"
    /\ LET NewRoot == InsInstrs[Len(InsInstrs)]
       IN \E DepInTrace \in [RootDefs(NewRoot) -> BOOLEAN],
             OpLat \in [{<<NewRoot.id, r>> : r \in RootDefs(NewRoot)}
                          -> 0..MaxOpLatency],
             InstrLat \in [{NewRoot.id} -> 1..MaxLatency],
             Entries \in UseDefLists(NewRoot, AllInstrs(blocks)) :
            LET BlockTrace == [DepInTrace |-> DepInTrace, Block |-> blocks[MBB]]
                TSched == [OpLat |-> OpLat, InstrLat |-> InstrLat]
                NewRootLatency == getLatency(MI, NewRoot, BlockTrace, TSched,
                                             [Entries |-> Entries])
            IN IF NewRootLatency.returns
               THEN /\ dec' = [dec EXCEPT !.NewRootLatency = NewRootLatency.value]
                    /\ pc' = "compare"
               ELSE /\ dec' = dec
                    /\ pc' = "crashed"
    /\ UNCHANGED <<cfg, answers, sweep, blocks, MBB, BlockIter, MI, ML, Patterns, pidx, candVars,
                   MinInstr, Changed, FnChanged, edited, via, thr, queried,
                   pending, freed, outcomes, histVars>>

\* lines 278-296 and 454: the latency of the old sequence, the slack, the
\* comparison, and the resource length when the comparison succeeds
CostCompare ==
    /\ pc = "compare"
    /\ \E d \in DelReads,
          InstrLat \in [Ids(DelInstrs) -> 1..MaxLatency],
          Slack \in [{MI.id} -> 0..MaxSlack] :
         LET RootLatency == RootLatencyOf(DelInstrs, [InstrLat |-> InstrLat])
             RootSlack == Slack[MI.id]
             ok == CycleCountCompare(dec.NewRootDepth, dec.NewRootLatency,
                                     dec.RootDepth, RootLatency, RootSlack)
         IN /\ dec' = [dec EXCEPT !.RootLatency = RootLatency,
                                  !.RootSlack = RootSlack,
                                  !.DelLat = [k \in 1..Len(DelInstrs) |->
                                                InstrLat[DelInstrs[k].id]],
                                  !.improves = ok,
                                  !.ResLen = ResLenAsked(ok, d)]
            /\ pc' = IF Accepts(ok, PreservesWith(d)) THEN "insert" ELSE "reject"
            /\ queried' = queried \cup {"slack"} \cup ResLenQueries(ok)
    /\ deadQuery' = (deadQuery \/ MI.id \notin AllIds(blocks))
    /\ UNCHANGED <<cfg, answers, sweep, blocks, MBB, BlockIter, MI, ML, Patterns, pidx, candVars,
                   MinInstr, Changed, FnChanged, edited, via, thr, pending,
                   freed, outcomes, staleRead, dangled, invalidated>>

-----------------------------------------------------------------------------
(* insertDeleteInstructions, in its three steps.                           *)

\* a faulty variant: each new instruction goes before the one inserted last
InsertInstrsReversed(bs, b, Root, Ins) ==
    [bs EXCEPT ![b] = InsertBefore(bs[b], Root.id,
                          [k \in 1..Len(Ins) |-> Attached(Ins[Len(Ins) + 1 - k])])]

\* lines 361-362: every new instruction goes before the anchor
InsertInstrs(bs, b, Root, Ins) ==
    [bs EXCEPT ![b] = InsertBefore(bs[b], Root.id,
                                   [k \in 1..Len(Ins) |-> Attached(Ins[k])])]

\* lines 363-364: every old instruction leaves its block
EraseInstrs(bs, Del) ==
    [b \in 1..Len(bs) |-> EraseAll(bs[b], Ids(Del))]

\* a faulty variant: the trace of the block is kept
invalidateNothing(ed, b) == ed

\* line 366: Traces->invalidate(MBB)
invalidate(ed, b) == [ed EXCEPT ![b] = FALSE]

\* lines 361-362; inserting before an anchor that was erased follows the
\* cleared links of the anchor and stops the program
Insert ==
    /\ pc = "insert"
    /\ IF MI.id \in Ids(blocks[MBB])
       THEN /\ blocks' = InsertInstrs(blocks, MBB, MI, InsInstrs)
            /\ pending' = pending \ Ids(InsInstrs)
            /\ edited' = [edited EXCEPT ![MBB] = TRUE]
            /\ dec' = NoDec
            /\ queried' = {}
            /\ pc' = "erase"
       ELSE /\ pc' = "crashed"
            /\ UNCHANGED <<blocks, pending, edited, dec, queried>>
    /\ UNCHANGED <<cfg, answers, sweep, MBB, BlockIter, MI, ML, Patterns, pidx, candVars,
                   MinInstr, Changed, FnChanged, via, thr, freed, outcomes,
                   histVars>>

Erase ==
    /\ pc = "erase"
    /\ blocks' = EraseInstrs(blocks, DelInstrs)
    /\ edited' = [edited EXCEPT ![MBB] = TRUE]
    /\ pc' = "invalidate"
    /\ UNCHANGED <<cfg, answers, sweep, MBB, BlockIter, MI, ML, Patterns, pidx, candVars,
                   MinInstr, Changed, FnChanged, decVars, pending, freed,
                   outcomes, histVars>>

\* a faulty variant: the pattern loop goes on after a substitution
AfterApplyContinue(n, len) == n + 1

\* lines 446-447 and 457-458: `break` leaves the pattern loop
AfterApply(n, len) == len + 1

\* lines 365-367, then lines 446-447 (457-458): Changed = true; break
Invalidate ==
    /\ pc = "invalidate"
    /\ edited' = invalidate(edited, MBB)
    /\ invalidated' = invalidated \cup {MBB}
    /\ Changed' = TRUE
    /\ outcomes' = Append(outcomes, "applied")
    /\ InsInstrs' = <<>>
    /\ DelInstrs' = <<>>
    /\ InstrIdxForVirtReg' = <<>>
    /\ via' = "none"
    /\ thr' = FALSE
    /\ pidx' = AfterApply(pidx, Len(Patterns))
    /\ pc' = "pattern"
    /\ UNCHANGED <<cfg, answers, sweep, blocks, MBB, BlockIter, MI, ML, Patterns, before, MinInstr,
                   FnChanged, dec, queried, pending, freed, staleRead,
                   deadQuery, dangled>>

\* a faulty variant: the new instructions of a rejected candidate are kept
ReleaseNone(pend, Ins) == pend

\* lines 463-464: MF->DeleteMachineInstr for every new instruction
ReleaseAll(pend, Ins) == pend \ Ids(Ins)

\* a faulty variant: a rejection ends the pattern loop
AfterRejectBreak(n, len) == len + 1

\* lines 466-467: the pattern loop goes on with the next pattern
AfterReject(n, len) == n + 1

\* lines 460-466: the candidate is rejected
Reject ==
    /\ pc = "reject"
    /\ pending' = ReleaseAll(pending, InsInstrs)
    /\ freed' = freed \cup (pending \ pending')
    /\ outcomes' = Append(outcomes, "rejected")
    /\ InsInstrs' = <<>>
    /\ DelInstrs' = <<>>
    /\ InstrIdxForVirtReg' = <<>>
    /\ via' = "none"
    /\ thr' = FALSE
    /\ dec' = NoDec
    /\ queried' = {}
    /\ pidx' = AfterReject(pidx, Len(Patterns))
    /\ pc' = "pattern"
    /\ UNCHANGED <<cfg, answers, sweep, blocks, MBB, BlockIter, MI, ML, Patterns, before, MinInstr,
                   Changed, FnChanged, edited, histVars>>

\* The cursor designates an erased instruction, or is what such an
\* instruction left behind: using it is undefined.  The pass stops; or, the
\* storage of the erased instruction being in use again, it goes on from any
\* place of the block.
DanglingCursor ==
    /\ pc = "loop"
    /\ BlockIter # EndIt
    /\ BlockIter \notin Ids(blocks[MBB])
    /\ dangled' = TRUE
    /\ \/ pc' = "crashed" /\ BlockIter' = BlockIter
       \/ /\ BlockIter # NullIt
          /\ \E o \in Ids(blocks[MBB]) \cup {EndIt} :
                pc' = "loop" /\ BlockIter' = o
    /\ UNCHANGED <<cfg, answers, sweep, blocks, MBB, MI, ML, Patterns, pidx, candVars, MinInstr,
                   Changed, FnChanged, edited, decVars, pending, freed,
                   outcomes, staleRead, deadQuery, invalidated>>

\* lines 385-416 with the cursor on an erased instruction whose storage still
\* holds it: `auto &MI = *BlockIter++` takes the erased instruction as anchor
\* and the provider is asked for its patterns; the cleared links of the
\* instruction leave the cursor on nothing.
ErasedAnchor ==
    /\ pc = "loop"
    /\ BlockIter \notin Ids(blocks[MBB])
    /\ BlockIter \in Ids(before)
    /\ dangled' = TRUE
    /\ LET Root == InstrAt(before, BlockIter)
       IN /\ MI' = Root
          /\ BlockIter' = NullIt
          /\ \E ps \in PatternLists(Root.opc) :
                /\ Patterns' = ps
                /\ IF ps = <<>>
                   THEN pc' = "loop" /\ pidx' = 0
                   ELSE pc' = "pattern" /\ pidx' = 1
    /\ freed' = {}
    /\ outcomes' = <<>>
    /\ before' = <<>>
    /\ sweep' = [sweep EXCEPT !.anchors = Append(@, BlockIter)]
    /\ UNCHANGED <<cfg, answers, blocks, MBB, ML, InsInstrs, DelInstrs,
                   InstrIdxForVirtReg, MinInstr, Changed, FnChanged,
                   edited, decVars, pending, staleRead, deadQuery, invalidated>>

-----------------------------------------------------------------------------
(* Specifications.                                                         *)

\* The provider keeps to old sequences that end in the anchor.
SynthesizeEndingInRoot == Synthesize(DelEndingInRoot(blocks[MBB], MI))

\* The provider may also return an old sequence that reaches past the anchor.
SynthesizeAnyOld ==
    Synthesize(DelEndingInRoot(blocks[MBB], MI) \cup DelPastRoot(blocks[MBB], MI))

Next ==
    \/ RunOnMachineFunction
    \/ ReturnChanged
    \/ EnterBlock
    \/ LeaveBlock
    \/ NextAnchor
    \/ PatternsDone
    \/ SynthesizeEndingInRoot
    \/ CheckSubstitute
    \/ CostDepth
    \/ CostLatency
    \/ CostCompare
    \/ Insert
    \/ Erase
    \/ Invalidate
    \/ Reject

Spec == Init /\ [][Next]_vars

NextAnyOld ==
    \/ RunOnMachineFunction
    \/ ReturnChanged
    \/ EnterBlock
    \/ LeaveBlock
    \/ NextAnchor
    \/ DanglingCursor
    \/ ErasedAnchor
    \/ PatternsDone
    \/ SynthesizeAnyOld
    \/ CheckSubstitute
    \/ CostDepth
    \/ CostLatency
    \/ CostCompare
    \/ Insert
    \/ Erase
    \/ Invalidate
    \/ Reject

SpecAnyOld == Init /\ [][NextAnyOld]_vars

\* the steps of lines 254-296 seen from outside: the pass leaves the depth
\* comparison for the latency query, the substitution or the rejection, and
\* the cycle comparison for the substitution or the rejection
LeaveCost ==
    \/ pc = "cost" /\ pc' \in {"latency", "insert", "reject"}
    \/ pc = "compare" /\ pc' \in {"insert", "reject"}

\* The pass is one sequential program: as long as it has a step to take, it
\* takes one.  At the two comparisons the only steps are CostDepth and
\* CostCompare, which are enabled whatever the trace answers and always leave
\* the position, so their fairness is stated on the position alone.
SpecFair ==
    /\ Spec
    /\ WF_vars(pc \notin {"cost", "compare"} /\ Next)
    /\ WF_pc(LeaveCost)

-----------------------------------------------------------------------------
(* getDepth on its own.  The candidate, the register-index map and the     *)
(* answers of the trace and of the scheduling model are drawn from small   *)
(* sets; the map takes every assignment of indices, also indices that are  *)
(* not earlier than the instruction that uses the register.                *)

\* the anchor the candidates are made for, and the register the first new
\* instruction defines
DepthRoot == InitBlocks[1][2]
NewReg == NewId(DepthRoot, 1, 1)

\* the operands a new instruction may have besides the register it defines
DepthOperands ==
    {UseOp(r) : r \in {InitBlocks[1][1].def, PhiVReg, UndefVReg, NewReg}}
      \cup {PhysOp(PhysReg), ImmOp}

NewInstr(k, uses) ==
    [id |-> NewId(DepthRoot, 1, k), opc |-> "NEW", def |-> NewId(DepthRoot, 1, k),
     ops |-> <<DefOp(NewId(DepthRoot, 1, k))>> \o uses]

\* candidates of one instruction with two operands, and of two instructions
DepthCandidates ==
    {<<NewInstr(1, <<a, b>>)>> : a \in DepthOperands, b \in DepthOperands}
      \cup {<<NewInstr(1, <<a>>), NewInstr(2, <<b, c>>)>> :
               a \in DepthOperands, b \in DepthOperands, c \in DepthOperands}

\* register-index maps: the new register and a register defined in the block,
\* each absent or mapped to the first or the second index
DepthMaps ==
    UNION {[D -> {0, 1}] : D \in SUBSET {NewReg, InitBlocks[1][1].def}}

\* a faulty variant: the last depth pushed counts as out of range
IndexInRangeButLast(idx, size) == idx < size - 1

\* line 153: the condition of the assertion "Bad Index"
IndexInRange(idx, size) == idx < size

\* some operand makes the assertion of line 153 fail: InstrDepth holds k - 1
\* depths while the k-th instruction is looked at
BadIndex(Ins, Idx) ==
    \E q \in VRegOps(Ins) :
        /\ Ins[q[1]].ops[q[2]].isUse
        /\ Ins[q[1]].ops[q[2]].reg \in DOMAIN Idx
        /\ ~IndexInRange(Idx[Ins[q[1]].ops[q[2]].reg], q[1] - 1)

InitDepth ==
    /\ pc = "getDepth"
    /\ cfg \in {c \in Configs : /\ hasInstrSchedModelOrItineraries(c.SchedModel)
                                /\ c.UseCombiner /\ ~c.OptSize}
    /\ blocks = InitBlocks
    /\ MBB = 1
    /\ BlockIter = EndIt
    /\ MI = DepthRoot
    /\ ML = FALSE
    /\ Patterns = <<>>
    /\ pidx = 0
    /\ InsInstrs \in DepthCandidates
    /\ DelInstrs = <<DepthRoot>>
    /\ InstrIdxForVirtReg \in DepthMaps
    /\ before = InitBlocks[1]
    /\ MinInstr = TRUE
    /\ Changed = FALSE
    /\ FnChanged = FALSE
    /\ edited = [b \in 1..Len(InitBlocks) |-> FALSE]
    /\ via = "none"
    /\ thr = FALSE
    /\ dec = NoDec
    /\ queried = {}
    /\ pending = Ids(InsInstrs)
    /\ freed = {}
    /\ outcomes = <<>>
    /\ staleRead = FALSE
    /\ deadQuery = FALSE
    /\ dangled = FALSE
    /\ invalidated = {}
    /\ sweep = [held |-> Len(InitBlocks[1]), anchors |-> <<DepthRoot.id>>]
    /\ answers \in
          [Depth : [ExtDefs(InsInstrs, InstrIdxForVirtReg, AllInstrs(InitBlocks))
                      -> 0..MaxDepth],
           OpLat : [UseLatKeys(InsInstrs, InstrIdxForVirtReg, AllInstrs(InitBlocks))
                      -> 0..MaxOpLatency]]

\* lines 125-176 when no assertion fails: the depth of the new root
GetDepth ==
    /\ pc = "getDepth"
    /\ ~BadIndex(InsInstrs, InstrIdxForVirtReg)
    /\ dec' = [dec EXCEPT !.NewRootDepth =
                  getDepth(InsInstrs, InstrIdxForVirtReg,
                           [Depth |-> answers.Depth, Block |-> blocks[MBB]],
                           [OpLat |-> answers.OpLat], AllInstrs(blocks))]
    /\ queried' = queried \cup {"depth"}
    /\ pc' = "depth"
    /\ UNCHANGED <<cfg, answers, sweep, blocks, MBB, BlockIter, MI, ML, Patterns, pidx,
                   candVars, MinInstr, Changed, FnChanged, edited, via, thr,
                   pending, freed, outcomes, histVars>>

\* line 153 in a build with assertions: "Bad Index" stops the program
GetDepthBadIndex ==
    /\ pc = "getDepth"
    /\ BadIndex(InsInstrs, InstrIdxForVirtReg)
    /\ pc' = "assert"
    /\ UNCHANGED <<cfg, answers, sweep, blocks, MBB, BlockIter, MI, ML, Patterns, pidx,
                   candVars, MinInstr, Changed, FnChanged, edited, decVars,
                   pending, freed, outcomes, histVars>>

\* some operand's index names no instruction of the candidate at all
IndexPastCandidate(Ins, Idx) ==
    \E q \in VRegOps(Ins) :
        /\ Ins[q[1]].ops[q[2]].isUse
        /\ Ins[q[1]].ops[q[2]].reg \in DOMAIN Idx
        /\ ~IndexInRange(Idx[Ins[q[1]].ops[q[2]].reg], Len(Ins))

\* a depth read from storage that no depth was written to: any value of
\* `unsigned`, which the model keeps as this token
AnyUnsigned == "any unsigned"

\* lines 154-157 in a build without assertions: InstrDepth[II->second] is read
\* past the depths pushed so far and the depth returned is any value; when the
\* index is past the candidate too, InsInstrs[II->second] is no instruction
\* and the program may stop on its use
GetDepthUnchecked ==
    /\ pc = "getDepth"
    /\ BadIndex(InsInstrs, InstrIdxForVirtReg)
    /\ \/ /\ dec' = [dec EXCEPT !.NewRootDepth = AnyUnsigned]
          /\ queried' = queried \cup {"depth"}
          /\ pc' = "undefined"
       \/ /\ IndexPastCandidate(InsInstrs, InstrIdxForVirtReg)
          /\ dec' = dec
          /\ queried' = queried
          /\ pc' = "crashed"
    /\ UNCHANGED <<cfg, answers, sweep, blocks, MBB, BlockIter, MI, ML, Patterns, pidx,
                   candVars, MinInstr, Changed, FnChanged, edited, via, thr,
                   pending, freed, outcomes, histVars>>

NextDepth ==
    \/ GetDepth
    \/ GetDepthBadIndex
    \/ GetDepthUnchecked

SpecDepth == InitDepth /\ [][NextDepth]_vars

\* The pass, and getDepth on its own, side by side.
InitCost == Init \/ InitDepth

NextCost ==
    \/ RunOnMachineFunction
    \/ ReturnChanged
    \/ EnterBlock
    \/ LeaveBlock
    \/ NextAnchor
    \/ PatternsDone
    \/ SynthesizeEndingInRoot
    \/ CheckSubstitute
    \/ CostDepth
    \/ CostLatency
    \/ CostCompare
    \/ Insert
    \/ Erase
    \/ Invalidate
    \/ Reject
    \/ GetDepth
    \/ GetDepthBadIndex
    \/ GetDepthUnchecked

SpecCost == InitCost /\ [][NextCost]_vars

-----------------------------------------------------------------------------
(* Properties.                                                             *)

\* the candidate of the current pattern is being decided or applied
Deciding == pc \in {"check", "cost", "latency", "compare", "insert", "erase",
                    "invalidate", "reject"}

\* the answers the trace of the block may give about the current candidate
TraceAnswers ==
    LET F == AllInstrs(blocks)
        NewRoot == InsInstrs[Len(InsInstrs)]
    IN { [Depth |-> d, Slack |-> s, DepInTrace |-> t, Block |-> blocks[MBB]] :
            d \in [{MI.id} \cup ExtDefs(InsInstrs, InstrIdxForVirtReg, F)
                     -> 0..MaxDepth],
            s \in [{MI.id} -> 0..MaxSlack],
            t \in [RootDefs(NewRoot) -> BOOLEAN] }

\* the answers the scheduling model may give about the current candidate
SchedAnswers ==
    LET F == AllInstrs(blocks)
        NewRoot == InsInstrs[Len(InsInstrs)]
    IN { [InstrLat |-> il, OpLat |-> ol] :
            il \in [Ids(DelInstrs) \cup {NewRoot.id} -> 1..MaxLatency],
            ol \in [UseLatKeys(InsInstrs, InstrIdxForVirtReg, F)
                      \cup {<<NewRoot.id, r>> : r \in RootDefs(NewRoot)}
                      -> 0..MaxOpLatency] }

\* every register the new root defines has a use after its definition
UsedLists == [Entries |-> [r \in RootDefs(InsInstrs[Len(InsInstrs)]) |-> 2]]

\* improvesCriticalPathLen on the current candidate, for given answers, when
\* the result of the new root is used
ImprovesWith(BlockTrace, TSched) ==
    improvesCriticalPathLen(MI, BlockTrace, InsInstrs, DelInstrs,
                            InstrIdxForVirtReg, Patterns[pidx], TSched,
                            AllInstrs(blocks), UsedLists).value

\* the inequality of the Default objective on the quantities of dec
DefaultInequality ==
    dec.NewRootDepth + dec.NewRootLatency
        <= dec.RootDepth + dec.RootLatency + dec.RootSlack

\* C1, as stated: every substitution applied for a Default pattern satisfies
\* newDepth + newLatency <= oldDepth + oldLatency + slack on the quantities of
\* the trace and the scheduling model at the moment of acceptance, whichever
\* way it was accepted.
C1_EveryDefaultSubstitution ==
    (pc = "insert" /\ getCombinerObjective(Patterns[pidx]) = "Default") =>
        IF via = "cost"
        THEN dec.obj = "Default" /\ DefaultInequality
        ELSE hasInstrSchedModelOrItineraries(cfg.SchedModel) =>
                \A bt \in TraceAnswers, ts \in SchedAnswers : ImprovesWith(bt, ts)

\* C1, amended: every substitution that the cost model accepts for a Default
\* pattern satisfies newDepth + newLatency <= oldDepth + oldLatency + slack on
\* the five quantities computed at the moment of acceptance.
C1_CostModelDefault ==
    (pc = "insert" /\ via = "cost"
        /\ getCombinerObjective(Patterns[pidx]) = "Default") =>
        /\ dec.obj = "Default"
        /\ dec.improves
        /\ DefaultInequality

\* a Default substitution accepted by the cost model although the new root is
\* deeper than the old one
C1_Witness ==
    /\ pc = "insert" /\ via = "cost" /\ dec.obj = "Default"
    /\ dec.NewRootDepth > dec.RootDepth
    /\ dec.NewRootDepth + dec.NewRootLatency
          = dec.RootDepth + dec.RootLatency + dec.RootSlack

\* C2, as stated: every substitution applied for a MustReduceDepth pattern
\* has newDepth < oldDepth, whichever way it was accepted.
C2_EveryReassocSubstitution ==
    (pc = "insert" /\ getCombinerObjective(Patterns[pidx]) = "MustReduceDepth") =>
        IF via = "cost"
        THEN dec.obj = "MustReduceDepth" /\ dec.NewRootDepth < dec.RootDepth
        ELSE hasInstrSchedModelOrItineraries(cfg.SchedModel) =>
                \A bt \in TraceAnswers, ts \in SchedAnswers : ImprovesWith(bt, ts)

\* C2, amended: every substitution that the cost model accepts for a
\* MustReduceDepth pattern has newDepth < oldDepth, strictly.
C2_CostModelReassoc ==
    (pc = "insert" /\ via = "cost"
        /\ getCombinerObjective(Patterns[pidx]) = "MustReduceDepth") =>
        /\ dec.obj = "MustReduceDepth"
        /\ dec.improves
        /\ dec.NewRootDepth < dec.RootDepth

\* a reassociation accepted by the cost model
C2_Witness ==
    /\ pc = "insert" /\ via = "cost" /\ dec.obj = "MustReduceDepth"
    /\ Patterns[pidx] = "REASSOC_XA_YB"
    /\ dec.NewRootDepth = 0 /\ dec.RootDepth = 1

\* the objective of the pattern, decided on the quantities of dec
DecideAccepts ==
    IF dec.obj = "MustReduceDepth"
    THEN dec.NewRootDepth < dec.RootDepth
    ELSE DefaultInequality

\* C3: a non-empty candidate taken by neither override is applied exactly when
\* the objective of its pattern accepts it and the resource length of the
\* block's trace does not grow; for a MustReduceDepth pattern the slack is
\* not asked for and the latencies are not computed.
C3_AppliedIffBoth ==
    /\ (pc \in {"insert", "reject"} /\ via = "cost") =>
          /\ InsInstrs # <<>>
          /\ dec.obj = getCombinerObjective(Patterns[pidx])
          /\ (pc = "insert") <=> (DecideAccepts /\ PreservesReads = {TRUE})
          /\ dec.obj = "MustReduceDepth" =>
                /\ "slack" \notin queried
                /\ dec.NewRootLatency = 0 /\ dec.RootLatency = 0
                /\ dec.RootSlack = 0
    /\ pc = "reject" => via = "cost"

\* a candidate that shortens the critical path is rejected because the
\* resource length would grow
C3_Witness ==
    /\ pc = "reject" /\ via = "cost"
    /\ DecideAccepts
    /\ PreservesReads = {FALSE}
    /\ "reslen" \in queried

\* C4: without a scheduling model (neither an instruction model nor
\* itineraries) every non-empty candidate is accepted: none is rejected and
\* the cost model is never evaluated.
C4_NoModelAcceptsAll ==
    ~hasInstrSchedModelOrItineraries(cfg.SchedModel) =>
        /\ pc \notin {"cost", "latency", "compare", "reject"}
        /\ via \in {"none", "always", "dosub"}
        /\ "rejected" \notin Range(outcomes)
        /\ dec = NoDec
        /\ queried = {}

\* without a scheduling model a candidate that is larger than the old
\* sequence is applied, and a second anchor of the block gets its turn
C4_Witness ==
    /\ cfg.SchedModel = "none" /\ ~cfg.OptSize
    /\ pc = "insert" /\ via = "dosub"
    /\ Len(InsInstrs) > Len(DelInstrs)
    /\ Changed

\* C5: when optimizing for size, a candidate with fewer new instructions than
\* old ones is accepted, and between its synthesis and the end of its splice
\* no depth, slack or resource length is asked of the trace.
C5_OptSizeSmaller ==
    (cfg.OptSize /\ InsInstrs # <<>> /\ Len(InsInstrs) < Len(DelInstrs)) =>
        /\ pc \in {"check", "insert", "erase", "invalidate"}
        /\ via \in {"none", "always", "dosub"}
        /\ pc # "check" => via # "none"
        /\ dec = NoDec
        /\ queried = {}

\* with an instruction scheduling model, a smaller candidate is being spliced
\* on the word of doSubstitute
C5_Witness ==
    /\ cfg.OptSize /\ cfg.SchedModel = "instr"
    /\ pc = "erase" /\ via = "dosub"
    /\ Len(InsInstrs) < Len(DelInstrs)

\* C6: in a block that is in a loop, a pattern the provider marks as a
\* throughput pattern is accepted at once, whatever its objective: the
\* override comes before doSubstitute and before the cost model.
C6_LoopThroughput ==
    thr =>
        /\ ML
        /\ via = "always"
        /\ pc \in {"insert", "erase", "invalidate"}
        /\ dec = NoDec
        /\ queried = {}

\* a reassociation is accepted by the override although some answers of the
\* trace would fail its objective and the resource length would grow
C6_Witness ==
    /\ thr /\ pc = "insert" /\ via = "always"
    /\ getCombinerObjective(Patterns[pidx]) = "MustReduceDepth"
    /\ cfg.SchedModel = "instr"
    /\ PreservesReads = {FALSE}
    /\ \E bt \in TraceAnswers, ts \in SchedAnswers : ~ImprovesWith(bt, ts)

\* C7: every new instruction a synthesis returned is spliced into the block
\* or released before the pass goes to the next pattern or anchor: once the
\* pass has gone on none is left allocated and unattached, no released one is
\* attached to a block or still held by a candidate, and none is both spliced
\* and released.  (A pass that getLatency stopped has not gone on: it ended
\* inside the decision of a candidate.)
C7_SplicedOrReleased ==
    /\ pending \subseteq Ids(InsInstrs)
    /\ (~Deciding /\ pc # "crashed") => (pending = {} /\ InsInstrs = <<>>)
    /\ pc \in {"erase", "invalidate"} =>
          (pending = {} /\ Ids(InsInstrs) \subseteq Ids(blocks[MBB]))
    /\ pending \cap AllIds(blocks) = {}
    /\ freed \cap AllIds(blocks) = {}
    /\ freed \cap Ids(InsInstrs) = {}
    /\ freed \cap pending = {}

\* the first candidate of the anchor was released, the second is spliced
C7_Witness ==
    /\ pc = "invalidate"
    /\ outcomes = <<"rejected">>
    /\ Cardinality(freed) = 2
    /\ Ids(InsInstrs) \subseteq Ids(blocks[MBB])
    /\ pending = {}

\* C8: the patterns of an anchor are tried in the order the provider gave, at
\* most one is applied, and it is the first whose candidate is non-empty and
\* accepted; once it is applied no later pattern of the anchor is synthesized.
C8_FirstAcceptedOnly ==
    /\ Len(outcomes) <= Len(Patterns)
    /\ \A k \in 1..Len(outcomes) :
          outcomes[k] = "applied" => k = Len(outcomes)
    /\ Deciding =>
          /\ pidx = Len(outcomes) + 1
          /\ pidx <= Len(Patterns)
          /\ "applied" \notin Range(outcomes)
          /\ Ids(InsInstrs) \subseteq {NewId(MI, pidx, 1), NewId(MI, pidx, 2)}
    /\ pc = "pattern" =>
          IF "applied" \in Range(outcomes)
          THEN pidx > Len(Patterns)
          ELSE pidx = Len(outcomes) + 1

\* the first of two patterns was applied and the second is never tried
C8_Witness ==
    /\ pc = "pattern"
    /\ Len(Patterns) = 2
    /\ outcomes = <<"applied">>
    /\ pidx > Len(Patterns)

\* a block is being swept
Sweeping == pc \notin {"start", "block", "done", "crashed", "getDepth", "depth",
                       "assert", "undefined"}

\* the instructions the function had before the pass
Original(id) == id \in AllIds(InitBlocks)

\* C9, as stated: after an accepted substitution, whatever old instructions
\* the provider returned, the cursor designates an instruction that is still
\* in the block (or the end of the block).
C9_AnyOldSet ==
    pc = "invalidate" => BlockIter \in Ids(blocks[MBB]) \cup {EndIt}

\* C9, amended: as long as no accepted substitution's old instructions
\* included the instruction that followed its anchor, after an accepted
\* substitution whose old instructions do not include it either the cursor is
\* on the instruction that followed the anchor in the block before the edit
\* (or at the end), which is still in the block and none of the new ones; and
\* no new instruction has been taken as an anchor.
C9_OldSetBeforeCursor ==
    /\ (/\ pc = "invalidate"
        /\ ~dangled
        /\ NextOf(before, MI.id) \notin Ids(DelInstrs)) =>
          /\ BlockIter = NextOf(before, MI.id)
          /\ BlockIter \in Ids(blocks[MBB]) \cup {EndIt}
          /\ BlockIter \notin Ids(InsInstrs)
    /\ (Sweeping /\ ~dangled) =>
          /\ \A k \in 1..Len(sweep.anchors) : Original(sweep.anchors[k])
          /\ MI = NullInstr \/ Original(MI.id)

\* two old instructions were erased, the new ones are in the block, and the
\* cursor is on the instruction that followed the anchor
C9_Witness ==
    /\ pc = "invalidate"
    /\ ~dangled
    /\ NextOf(before, MI.id) \notin Ids(DelInstrs)
    /\ Len(DelInstrs) = 2
    /\ Ids(DelInstrs) \cap Ids(blocks[MBB]) = {}
    /\ Ids(InsInstrs) \subseteq Ids(blocks[MBB])
    /\ BlockIter \in Ids(blocks[MBB])
    /\ PosOf(blocks[MBB], BlockIter) = Len(InsInstrs) + 1

\* C10: the trace of a block is never read between an edit of the block and
\* its invalidation, every substitution invalidates the trace before the pass
\* goes on, and no depth or slack is asked for an erased instruction.
C10_InvalidateBeforeReuse ==
    /\ ~staleRead
    /\ ~deadQuery
    /\ pc \in {"cost", "latency", "compare"} =>
          (~edited[MBB] /\ MI.id \in Ids(blocks[MBB]))
    /\ pc \notin {"erase", "invalidate"} =>
          \A b \in DOMAIN edited : ~edited[b]

\* the cost model reads the trace of a block that an earlier substitution of
\* the same sweep has edited
C10_Witness ==
    /\ pc = "latency"
    /\ Changed
    /\ "depth" \in queried
    /\ \E i \in Ids(blocks[MBB]) : ~Original(i)

\* a substitution has been applied in block b: it holds a new instruction
AppliedIn(b) == \E i \in Ids(blocks[b]) : ~Original(i)

\* C11: the pass returns "changed" exactly when a substitution was applied in
\* some block: the result is the OR of the blocks' flags, and the flag of a
\* block is set exactly when a substitution was applied in it.  When no
\* pattern was ever reported the pass returns "unchanged", the function is as
\* it was and no trace was invalidated.
C11_ChangedIffApplied ==
    /\ pc = "done" =>
          /\ FnChanged <=> (\E b \in 1..Len(blocks) : AppliedIn(b))
          /\ FnChanged <=> (invalidated # {})
    /\ pc = "block" =>
          FnChanged <=> (\E b \in 1..(MBB - 1) : AppliedIn(b))
    /\ pc \in {"loop", "pattern", "check", "cost", "latency", "compare",
               "insert", "reject"} =>
          /\ Changed <=> AppliedIn(MBB)
          /\ Changed <=> (MBB \in invalidated)
    /\ ~MinInstr =>
          /\ blocks = InitBlocks
          /\ invalidated = {}
          /\ ~Changed /\ ~FnChanged

\* the pass returns "changed" although its last block was left as it was
C11_Witness ==
    /\ pc = "done"
    /\ FnChanged
    /\ AppliedIn(1)
    /\ ~AppliedIn(Len(blocks))
    /\ ~Changed

\* C12: when the target reports that combining is unsupported the pass
\* returns unchanged and does nothing: no pattern list, no candidate, no edit
\* of a block, no trace obtained, read or invalidated.
C12_UnsupportedNoOp ==
    ~cfg.UseCombiner =>
        /\ pc \in {"start", "done"}
        /\ ~FnChanged /\ ~Changed
        /\ blocks = InitBlocks
        /\ Patterns = <<>> /\ MI = NullInstr
        /\ InsInstrs = <<>> /\ DelInstrs = <<>> /\ pending = {} /\ freed = {}
        /\ ~MinInstr /\ queried = {} /\ dec = NoDec
        /\ invalidated = {}
        /\ \A b \in DOMAIN edited : ~edited[b]

\* the pass has returned for a target that does not support combining
C12_Witness ==
    /\ ~cfg.UseCombiner
    /\ pc = "done"
    /\ ~FnChanged

\* The scenario MUL + ADD -> MADD: the anchor is an ADD, the old sequence is
\* the MUL before it and the ADD, the candidate is one MADD of a Default
\* pattern, and the cost model has given its answer.
MulAddDecided ==
    /\ pc \in {"insert", "reject"}
    /\ via = "cost"
    /\ MI.opc = "ADD"
    /\ Len(DelInstrs) = 2 /\ DelInstrs[1].opc = "MUL" /\ DelInstrs[2] = MI
    /\ Len(InsInstrs) = 1 /\ InsInstrs[1].opc = "MADD"
    /\ getCombinerObjective(Patterns[pidx]) = "Default"

\* the latencies the scheduling model gave for the MUL and the ADD
LatencyOfMul == dec.DelLat[1]
LatencyOfAdd == dec.DelLat[2]

\* C13, as stated: in the scenario, when the slack of the ADD is 0 and the
\* latency of the MADD exceeds the latency of the ADD, the candidate is
\* rejected.
C13_RejectOnAddLatency ==
    (MulAddDecided /\ dec.RootSlack = 0 /\ dec.NewRootLatency > LatencyOfAdd)
        => pc = "reject"

\* C13, amended: in the scenario, when the slack of the ADD is 0 and
\* depth(MADD) + latency(MADD) exceeds depth(ADD) + latency(MUL) +
\* latency(ADD), the candidate is rejected, the ADD and the MUL are in the
\* block as before and the MADD is not; once rejected, the MADD is released
\* and the block is the one before the synthesis.
C13_RejectOnCycleCount ==
    /\ (MulAddDecided /\ dec.RootSlack = 0
          /\ dec.NewRootDepth + dec.NewRootLatency
                > dec.RootDepth + LatencyOfMul + LatencyOfAdd) =>
          /\ pc = "reject"
          /\ blocks[MBB] = before
          /\ Ids(DelInstrs) \subseteq Ids(blocks[MBB])
          /\ Ids(InsInstrs) \cap AllIds(blocks) = {}
          /\ Ids(InsInstrs) \subseteq pending
    /\ (pc = "pattern" /\ outcomes # <<>>
          /\ outcomes[Len(outcomes)] = "rejected") =>
          /\ blocks[MBB] = before
          /\ MI.id \in Ids(blocks[MBB])
          /\ NewId(MI, Len(outcomes), 1) \in freed
          /\ pending = {}

\* the MADD is rejected with slack 0 because it is deeper than the ADD,
\* although its latency does not exceed the latencies of the MUL and the ADD
C13_Witness ==
    /\ MulAddDecided /\ pc = "reject"
    /\ dec.RootSlack = 0
    /\ dec.NewRootLatency > LatencyOfAdd
    /\ dec.NewRootLatency <= LatencyOfMul + LatencyOfAdd
    /\ dec.NewRootDepth + dec.NewRootLatency
          > dec.RootDepth + LatencyOfMul + LatencyOfAdd

\* C14, as stated: in the scenario, when the latency of the MADD is at most
\* the latency of the ADD plus the slack of the ADD, the candidate is accepted.
C14_AcceptOnAddLatency ==
    (MulAddDecided /\ dec.NewRootLatency <= LatencyOfAdd + dec.RootSlack)
        => pc = "insert"

\* the MADD has replaced the ADD and the MUL: it sits where the MUL was
MaddReplaced ==
    /\ Ids(InsInstrs) \subseteq Ids(blocks[MBB])
    /\ Ids(DelInstrs) \cap AllIds(blocks) = {}
    /\ Len(blocks[MBB]) = Len(before) - 1
    /\ PosOf(blocks[MBB], InsInstrs[1].id) = PosOf(before, DelInstrs[1].id)

\* C14, amended: in the scenario, when the latency of the MADD is at most the
\* latency of the ADD plus the slack of the ADD, the depth of the MADD is at
\* most the depth of the ADD and the resource length of the block does not
\* grow, the candidate is accepted; and once its splice is done the MADD has
\* replaced the ADD and the MUL in the block.
C14_AcceptOnLatencyAndDepth ==
    /\ (MulAddDecided /\ dec.NewRootLatency <= LatencyOfAdd + dec.RootSlack
          /\ dec.NewRootDepth <= dec.RootDepth
          /\ PreservesReads = {TRUE}) => pc = "insert"
    /\ (pc = "invalidate" /\ via = "cost" /\ MI.opc = "ADD"
          /\ Len(DelInstrs) = 2 /\ Len(InsInstrs) = 1) => MaddReplaced

\* the MADD, accepted by the cost model, has replaced the ADD and the MUL
C14_Witness ==
    /\ pc = "invalidate" /\ via = "cost" /\ cfg.SchedModel = "instr"
    /\ MI.opc = "ADD"
    /\ Len(DelInstrs) = 2 /\ DelInstrs[1].opc = "MUL"
    /\ Len(InsInstrs) = 1 /\ InsInstrs[1].opc = "MADD"
    /\ getCombinerObjective(Patterns[pidx]) = "Default"
    /\ MaddReplaced

\* the block blk with the instructions Ins, in their order, put immediately
\* before Root
WithNew(blk, Root, Ins) ==
    LET k == PosOf(blk, Root.id)
    IN SubSeq(blk, 1, k - 1) \o [j \in 1..Len(Ins) |-> Attached(Ins[j])]
          \o SubSeq(blk, k, Len(blk))

\* the block blk without the instructions of Del, the others in their order
WithoutOld(blk, Del) == SelectSeq(blk, LAMBDA i : i.id \notin Ids(Del))

\* C15: an accepted substitution leaves the block with the new instructions,
\* contiguous and in candidate order, immediately before the place of the
\* anchor, with every old instruction gone and every other instruction kept
\* in its order; the same step invalidates the trace entry of the block and
\* sets the flag of the block.
C15_SpliceShape ==
    /\ pc = "erase" =>
          /\ blocks[MBB] = WithNew(before, MI, InsInstrs)
          /\ edited[MBB]
    /\ pc = "invalidate" =>
          /\ blocks[MBB] = WithoutOld(WithNew(before, MI, InsInstrs), DelInstrs)
          /\ Ids(DelInstrs) \cap AllIds(blocks) = {}
          /\ edited[MBB]
    /\ (pc = "pattern" /\ outcomes # <<>>
          /\ outcomes[Len(outcomes)] = "applied") =>
          /\ Changed
          /\ MBB \in invalidated
          /\ ~edited[MBB]
          /\ blocks[MBB] # before
          /\ Len(SelectSeq(blocks[MBB], LAMBDA i : i \notin Range(before)))
                \in {1, 2}

\* two new instructions stand between an instruction that was kept and the
\* instruction that followed the erased anchor
C15_Witness ==
    /\ pc = "invalidate"
    /\ Len(InsInstrs) = 2 /\ Len(DelInstrs) = 1
    /\ Len(blocks[MBB]) = 4
    /\ blocks[MBB][1] = before[1]
    /\ blocks[MBB][2] = Attached(InsInstrs[1])
    /\ blocks[MBB][3] = Attached(InsInstrs[2])
    /\ blocks[MBB][4] = before[3]

\* C16: without an instruction-level scheduling model (itineraries alone
\* included) the resource-length test answers true and asks the trace
\* nothing; with one it answers true exactly when the resource length of the
\* block with the candidate's scheduling classes added and the old
\* instructions' classes removed is at most the block's current length.
C16_ResourceLength ==
    (pc \in {"insert", "reject"} /\ via = "cost") =>
        /\ ~hasInstrSchedModel(cfg.SchedModel) =>
              /\ "reslen" \notin queried
              /\ dec.ResLen = <<>>
              /\ (pc = "insert") <=> dec.improves
        /\ (hasInstrSchedModel(cfg.SchedModel) /\ dec.improves) =>
              /\ "reslen" \in queried
              /\ Len(dec.ResLen) = 2
              /\ dec.ResLen[1] = ResLenBeforeCombine
              /\ dec.ResLen[2] =
                    getResourceLength([Block |-> blocks[MBB]],
                        [k \in 1..Len(InsInstrs) |-> SchedClassCycles(InsInstrs[k].opc)],
                        [k \in 1..Len(DelInstrs) |-> SchedClassCycles(DelInstrs[k].opc)])
              /\ (pc = "insert") <=> (dec.ResLen[2] <= dec.ResLen[1])

\* with an instruction model, a candidate that leaves the resource length
\* as it is passes the test
C16_Witness ==
    /\ pc = "insert" /\ via = "cost"
    /\ hasInstrSchedModel(cfg.SchedModel)
    /\ "reslen" \in queried
    /\ Len(dec.ResLen) = 2
    /\ dec.ResLen[2] = dec.ResLen[1]

\* the definition of register r among the attached instructions when it is
\* the only one and no PHI
OutsideDef(r) ==
    {i \in AllInstrs(blocks) :
        /\ i.def = r
        /\ i.opc # "PHI"
        /\ \A o \in AllInstrs(blocks) : o.def = r => o = i}

\* the virtual-register use operands of the k-th instruction of the candidate
VRegUses(k) ==
    {j \in 1..Len(InsInstrs[k].ops) :
        /\ InsInstrs[k].ops[j].isReg
        /\ InsInstrs[k].ops[j].isVirt
        /\ InsInstrs[k].ops[j].isUse}

\* the depth of the k-th instruction of the candidate: the largest
\* defDepth + operandLatency over its virtual-register use operands
RECURSIVE DepthOfNew(_)
DepthOfNew(k) ==
    LET Term(r) ==
            IF r \in DOMAIN InstrIdxForVirtReg
            THEN DepthOfNew(InstrIdxForVirtReg[r] + 1)
                    + answers.OpLat[<<InsInstrs[k].id, r>>]
            ELSE IF OutsideDef(r) # {}
            THEN answers.Depth[(CHOOSE i \in OutsideDef(r) : TRUE).id]
                    + answers.OpLat[<<InsInstrs[k].id, r>>]
            ELSE 0
        Terms == {Term(InsInstrs[k].ops[j].reg) : j \in VRegUses(k)}
    IN IF Terms = {} THEN 0
       ELSE CHOOSE m \in Terms : \A t \in Terms : t <= m

\* C17: getDepth returns the depth of the last instruction of the candidate;
\* the depth of a candidate instruction is the maximum over its
\* virtual-register use operands of defDepth + operandLatency, 0 when it has
\* none, where defDepth is the depth of the mapped earlier candidate
\* instruction for a register of the map and the trace depth of the
\* definition for a register with a unique non-PHI definition outside; a
\* register defined by a PHI or without definition, a physical register and
\* a non-register operand contribute 0.
C17_DepthOfLast ==
    pc = "depth" => dec.NewRootDepth = DepthOfNew(Len(InsInstrs))

\* the new root reads the first new instruction through the map and a
\* register defined in the block, and the mapped operand decides the depth
C17_Witness ==
    /\ pc = "depth"
    /\ Len(InsInstrs) = 2
    /\ InstrIdxForVirtReg = (NewReg :> 0)
    /\ InsInstrs[1].ops[2] = UseOp(InitBlocks[1][1].def)
    /\ InsInstrs[2].ops[2] = UseOp(NewReg)
    /\ InsInstrs[2].ops[3] = UseOp(InitBlocks[1][1].def)
    /\ dec.NewRootDepth = UAdd(UAdd(MaxDepth, MaxOpLatency), MaxOpLatency)

\* the last pattern tried for the anchor was rejected, and no other has been
\* synthesized since
JustRejected ==
    /\ pc = "pattern"
    /\ outcomes # <<>>
    /\ outcomes[Len(outcomes)] = "rejected"

\* C18: a rejection changes nothing observable: the block is the sequence it
\* was before the synthesis, with the anchor and every old instruction in
\* place; the trace entry of the block is not invalidated and the flag of the
\* block keeps its value (both stand exactly when an earlier anchor of the
\* block had a substitution applied); the driver is at the next pattern of
\* the same anchor with an empty register-index map.
C18_RejectionChangesNothing ==
    /\ pc = "reject" =>
          /\ blocks[MBB] = before
          /\ Ids(DelInstrs) \subseteq Ids(blocks[MBB])
          /\ MI \in Range(blocks[MBB])
    /\ JustRejected =>
          /\ blocks[MBB] = before
          /\ MI \in Range(blocks[MBB])
          /\ ~edited[MBB]
          /\ "applied" \notin Range(outcomes)
          /\ Changed <=> AppliedIn(MBB)
          /\ (MBB \in invalidated) <=> AppliedIn(MBB)
          /\ pidx = Len(outcomes) + 1
          /\ InsInstrs = <<>> /\ DelInstrs = <<>>
          /\ InstrIdxForVirtReg = <<>>
          /\ pending = {}

\* the first of two patterns was rejected, the block has not been changed
\* and the second pattern is next
C18_Witness ==
    /\ JustRejected
    /\ Len(Patterns) = 2 /\ pidx = 2
    /\ ~Changed
    /\ blocks[MBB] = InitBlocks[MBB]
    /\ freed # {}

\* lines 130, 189 and 251: the condition of the assertions "Missing machine
\* model" of getDepth, getLatency and improvesCriticalPathLen
MachineModelPresent == cfg.SchedModel \in {"instr", "itineraries"}

\* the pass is inside improvesCriticalPathLen, getDepth or getLatency
InCostModel == pc \in {"cost", "latency", "compare"}

\* C19: the assertions "Missing machine model" never fail: the driver is
\* inside improvesCriticalPathLen, getDepth or getLatency only when the
\* scheduling model has an instruction-level model or itineraries, whatever
\* the code-size flag, the loop membership, the throughput marking and the
\* sizes of the candidate.
C19_MachineModelPresent ==
    /\ InCostModel => MachineModelPresent
    /\ via = "cost" => MachineModelPresent
    /\ dec # NoDec => MachineModelPresent

\* with itineraries only, optimizing for size, in a loop, a candidate that
\* is not smaller than the old sequence reaches getLatency
C19_Witness ==
    /\ pc = "latency"
    /\ cfg.SchedModel = "itineraries"
    /\ cfg.OptSize
    /\ ML
    /\ Len(InsInstrs) = 2 /\ Len(DelInstrs) = 2

\* every register of the map that a new instruction uses is mapped to an
\* index strictly before the index of that instruction (indices from 0)
WellFormedMap ==
    \A k \in 1..Len(InsInstrs) : \A j \in VRegUses(k) :
        InsInstrs[k].ops[j].reg \in DOMAIN InstrIdxForVirtReg =>
            InstrIdxForVirtReg[InsInstrs[k].ops[j].reg] < k - 1

\* the depths getDepth has pushed when it looks at the k-th new instruction
DepthsBefore(k) ==
    InstrDepths(InsInstrs, InstrIdxForVirtReg,
                [Depth |-> answers.Depth, Block |-> blocks[MBB]],
                [OpLat |-> answers.OpLat], AllInstrs(blocks), k - 1)

\* getDepth stopped the program on an index past the candidate
StoppedInGetDepth == pc = "crashed" /\ dec.obj = "none" /\ ~dangled

\* C20: the driver never enters the cost model with an empty candidate, so
\* the index size - 1 of the new root does not underflow; and when every map
\* register a new instruction uses is mapped to a strictly earlier index,
\* the assertion "Bad Index" does not fail and every depth looked up for a
\* definition inside the candidate has been computed when it is read.
C20_IndexSafety ==
    /\ (pc \in {"check", "cost", "latency", "compare"} \/ via = "cost") =>
          Len(InsInstrs) - 1 >= 0
    /\ WellFormedMap => (pc \notin {"assert", "undefined"} /\ ~StoppedInGetDepth)
    /\ (WellFormedMap /\ pc \in {"getDepth", "depth"}) =>
          \A k \in 1..Len(InsInstrs) : \A j \in VRegUses(k) :
              InsInstrs[k].ops[j].reg \in DOMAIN InstrIdxForVirtReg =>
                  InstrIdxForVirtReg[InsInstrs[k].ops[j].reg] + 1
                      \in DOMAIN DepthsBefore(k)

\* getDepth has returned for a candidate whose new root reads, through the
\* map, two registers that both lead to the first new instruction
C20_Witness ==
    /\ pc = "depth"
    /\ Len(InsInstrs) = 2
    /\ DOMAIN InstrIdxForVirtReg = {NewReg, InitBlocks[1][1].def}
    /\ InstrIdxForVirtReg[NewReg] = 0
    /\ InstrIdxForVirtReg[InitBlocks[1][1].def] = 0
    /\ InsInstrs[2].ops[2] = UseOp(NewReg)
    /\ InsInstrs[2].ops[3] = UseOp(InitBlocks[1][1].def)
    /\ WellFormedMap

\* the anchors taken in the sweep are distinct, no more than the instructions
\* the block held when the sweep began, and those still in the block stand
\* before the cursor
SweepInOrder ==
    Sweeping =>
        /\ \A i, j \in 1..Len(sweep.anchors) :
              sweep.anchors[i] = sweep.anchors[j] => i = j
        /\ Len(sweep.anchors) <= sweep.held
        /\ BlockIter \in Ids(blocks[MBB]) =>
              \A i \in 1..Len(sweep.anchors) :
                  sweep.anchors[i] \in Ids(blocks[MBB]) =>
                      PosOf(blocks[MBB], sweep.anchors[i])
                          < PosOf(blocks[MBB], BlockIter)

\* C21: the pass runs to its return, and in every sweep the cursor only moves
\* forward, no instruction is taken as anchor twice and the sweep takes at
\* most as many anchors as the block held instructions when it began.
C21_AlwaysTerminates ==
    /\ [](SweepInOrder)
    /\ [](pc # "crashed")
    /\ <>(pc = "done")

\* getLatency has stepped past the end of the use-def list of the register
\* the new root defines: the candidate of a Default pattern was on its way to
\* the cycle comparison and the program is stopped
C21_Witness ==
    /\ pc = "crashed"
    /\ via = "cost"
    /\ dec.obj = "Default"
    /\ "depth" \in queried /\ "slack" \notin queried
    /\ MI.id \in Ids(blocks[MBB])

====
